---- MODULE Spec2Model ----
(***************************************************************************)
(* ypdddns: Yandex PDD dynamic DNS updater (src/src/main.rs).              *)
(*                                                                         *)
(* One process run: parse the command line, split the domain argument on   *)
(* its first '.', then either `set` (set_ip) or `update` (current_ip,      *)
(* real_ip, compare, set_ip).  Every network call is one step; the         *)
(* response of the remote service is an input of that step.                *)
(*                                                                         *)
(* Text is modelled as sequences of one-character strings, so that the     *)
(* domain split, IpAddr parsing and IpAddr formatting are computed.        *)
(***************************************************************************)
EXTENDS Integers, Sequences, FiniteSets, TLC

(***************************************************************************)
(* Text helpers                                                            *)
(***************************************************************************)

\* The largest number of records in one directory listing of the model.
MaxRecords == 2

DecDigits == <<"0", "1", "2", "3", "4", "5", "6", "7", "8", "9">>

HexLower == <<"0", "1", "2", "3", "4", "5", "6", "7", "8", "9",
              "a", "b", "c", "d", "e", "f">>

HexUpper == <<"0", "1", "2", "3", "4", "5", "6", "7", "8", "9",
              "A", "B", "C", "D", "E", "F">>

\* char::to_digit(radix): the digit's value, or -1 when c is no digit.
ToDigit(c, radix) ==
    IF \E i \in 1..radix : HexLower[i] = c
    THEN (CHOOSE i \in 1..radix : HexLower[i] = c) - 1
    ELSE IF \E i \in 1..radix : HexUpper[i] = c
    THEN (CHOOSE i \in 1..radix : HexUpper[i] = c) - 1
    ELSE -1

\* The number of consecutive digits of s from position pos on.
RECURSIVE DigitRun(_, _, _)
DigitRun(s, pos, radix) ==
    IF pos <= Len(s) /\ ToDigit(s[pos], radix) >= 0
    THEN 1 + DigitRun(s, pos + 1, radix)
    ELSE 0

\* The value of the n digits of s that start at pos.
RECURSIVE DigitsValue(_, _, _, _)
DigitsValue(s, pos, n, radix) ==
    IF n = 0 THEN 0
    ELSE DigitsValue(s, pos, n - 1, radix) * radix + ToDigit(s[pos + n - 1], radix)

NoParse == [ok |-> FALSE, val |-> 0, pos |-> 0]

\* The checked arithmetic of read_number: a value above maxVal overflows the
\* integer type being read (u8 or u16).
CheckedNumber(v, maxVal, pos) ==
    IF v > maxVal THEN NoParse ELSE [ok |-> TRUE, val |-> v, pos |-> pos]

\* The n digits at pos as a number: fails on no digit, on more than
\* maxDigits digits and on a forbidden zero prefix.
NumberOfDigits(s, pos, n, radix, maxDigits, allowZeroPrefix, maxVal) ==
    IF n = 0 \/ n > maxDigits THEN NoParse
    ELSE IF ~allowZeroPrefix /\ s[pos] = "0" /\ n > 1 THEN NoParse
    ELSE CheckedNumber(DigitsValue(s, pos, n, radix), maxVal, pos + n)

\* Parser::read_number of core::net: reads every digit at pos.
ReadNumber(s, pos, radix, maxDigits, allowZeroPrefix, maxVal) ==
    NumberOfDigits(s, pos, DigitRun(s, pos, radix), radix, maxDigits,
                   allowZeroPrefix, maxVal)

\* Parser::read_given_char: the position after c, or 0 when s[pos] is not c.
ReadGivenChar(s, pos, c) ==
    IF pos <= Len(s) /\ s[pos] = c THEN pos + 1 ELSE 0

\* Parser::read_separator: the position where item number index (from 0)
\* starts, after the separator sep unless it is the first; 0 on failure.
ReadSeparator(s, pos, sep, index) ==
    IF index = 0 THEN pos ELSE ReadGivenChar(s, pos, sep)

\* A number at p0, where p0 = 0 says that the separator was missing.
ReadNumberAt(s, p0, radix, maxDigits, allowZeroPrefix, maxVal) ==
    IF p0 = 0 THEN NoParse
    ELSE ReadNumber(s, p0, radix, maxDigits, allowZeroPrefix, maxVal)

NoAddr == [ok |-> FALSE, val |-> <<>>, pos |-> 0]

\* Parser::read_ipv4_addr: four decimal octets separated by '.'; octet
\* number i (from 0) is being read and acc holds the octets read so far.
RECURSIVE ReadOctets(_, _, _, _)
RECURSIVE NextOctet(_, _, _, _)
ReadOctets(s, pos, i, acc) ==
    IF i >= 4 THEN [ok |-> TRUE, val |-> acc, pos |-> pos]
    ELSE NextOctet(s, i, acc,
             ReadNumberAt(s, ReadSeparator(s, pos, ".", i), 10, 3, FALSE, 255))

NextOctet(s, i, acc, num) ==
    IF ~num.ok THEN NoAddr
    ELSE ReadOctets(s, num.pos, i + 1, Append(acc, num.val))

ReadIpv4Addr(s, pos) == ReadOctets(s, pos, 0, <<>>)

\* An embedded IPv4 address at p0, tried only while two groups are left.
ReadEmbeddedIpv4(s, p0, i, limit) ==
    IF i < limit - 1 THEN ReadIpv4Addr(s, p0) ELSE NoAddr

\* read_groups of Parser::read_ipv6_addr: up to limit 16-bit groups separated
\* by ':'; group number i (from 0) is being read and acc holds the groups
\* read so far.  An embedded IPv4 address is tried first and ends the
\* reading; a group that cannot be read ends it before its separator.
RECURSIVE ReadGroups(_, _, _, _, _)
RECURSIVE GroupAt(_, _, _, _, _, _)
RECURSIVE GroupOrIpv4(_, _, _, _, _, _, _)
ReadGroups(s, pos, i, limit, acc) ==
    IF i >= limit THEN [groups |-> acc, pos |-> pos, ipv4 |-> FALSE]
    ELSE GroupAt(s, pos, ReadSeparator(s, pos, ":", i), i, limit, acc)

GroupAt(s, pos, p0, i, limit, acc) ==
    IF p0 = 0 THEN [groups |-> acc, pos |-> pos, ipv4 |-> FALSE]
    ELSE GroupOrIpv4(s, pos, i, limit, acc,
                     ReadEmbeddedIpv4(s, p0, i, limit),
                     ReadNumber(s, p0, 16, 4, TRUE, 65535))

GroupOrIpv4(s, pos, i, limit, acc, v4, grp) ==
    IF v4.ok
    THEN [groups |-> acc \o << v4.val[1] * 256 + v4.val[2],
                               v4.val[3] * 256 + v4.val[4] >>,
          pos |-> v4.pos, ipv4 |-> TRUE]
    ELSE IF ~grp.ok THEN [groups |-> acc, pos |-> pos, ipv4 |-> FALSE]
    ELSE ReadGroups(s, grp.pos, i + 1, limit, Append(acc, grp.val))

Zeros(n) == [i \in 1..n |-> 0]

\* The second ':' of "::", c1 being the position after the first.
SecondColon(s, c1) == IF c1 = 0 THEN 0 ELSE ReadGivenChar(s, c1, ":")

\* head.copy_from_slice: the head, the zeros "::" stands for, the tail.
Ipv6Join(head, tail) ==
    [ok |-> TRUE,
     val |-> head \o Zeros(8 - Len(head) - Len(tail.groups)) \o tail.groups,
     pos |-> tail.pos]

\* The back part of the address, c2 being the position after "::"; the "::"
\* holds at least one group, so at most 8 - (head_size + 1) groups follow.
Ipv6Tail(s, head, c2) ==
    IF c2 = 0 THEN NoAddr
    ELSE Ipv6Join(head, ReadGroups(s, c2, 0, 8 - (Len(head) + 1), <<>>))

\* The address after its front part: complete, or continued by "::".
Ipv6AfterHead(s, head) ==
    IF Len(head.groups) = 8
    THEN [ok |-> TRUE, val |-> head.groups, pos |-> head.pos]
    ELSE IF head.ipv4 THEN NoAddr
    ELSE Ipv6Tail(s, head.groups,
                  SecondColon(s, ReadGivenChar(s, head.pos, ":")))

\* Parser::read_ipv6_addr: eight groups, or a head, "::" and a tail.
ReadIpv6Addr(s, pos) == Ipv6AfterHead(s, ReadGroups(s, pos, 0, 8, <<>>))

(***************************************************************************)
(* std::net::IpAddr: a V4 address of four octets or a V6 address of eight  *)
(* segments; equality is derived (variant and parts).                      *)
(***************************************************************************)
NoIp == [kind |-> "None", parts |-> <<>>]

\* Parser::parse_with: the whole text has to be consumed.
WholeText(s, kind, addr, otherwise) ==
    IF addr.ok /\ addr.pos = Len(s) + 1
    THEN [kind |-> kind, parts |-> addr.val]
    ELSE otherwise

\* <IpAddr as FromStr>::from_str: an IPv4 address, else an IPv6 address;
\* NoIp is the parse error.
ParseIp(s) ==
    WholeText(s, "V4", ReadIpv4Addr(s, 1),
              WholeText(s, "V6", ReadIpv6Addr(s, 1), NoIp))

\* The decimal text of n >= 0 (i64::to_string, and the octets of Display).
RECURSIVE DecText(_)
DecText(n) ==
    IF n < 10 THEN <<DecDigits[n + 1]>>
    ELSE DecText(n \div 10) \o <<DecDigits[(n % 10) + 1]>>

\* The lower-case hexadecimal text of n >= 0 ({:x}).
RECURSIVE HexText(_)
HexText(n) ==
    IF n < 16 THEN <<HexLower[n + 1]>>
    ELSE HexText(n \div 16) \o <<HexLower[(n % 16) + 1]>>

\* <Ipv4Addr as Display>::fmt
Ipv4Text(o) ==
    DecText(o[1]) \o <<".">> \o DecText(o[2]) \o <<".">> \o
    DecText(o[3]) \o <<".">> \o DecText(o[4])

\* The length of the run of zero segments of g that starts at i.
RECURSIVE ZeroRun(_, _)
ZeroRun(g, i) ==
    IF i <= Len(g) /\ g[i] = 0 THEN 1 + ZeroRun(g, i + 1) ELSE 0

\* The segments g[from..to] in hexadecimal, separated by ':'.
RECURSIVE SegmentsText(_, _, _)
SegmentsText(g, from, to) ==
    IF from > to THEN <<>>
    ELSE IF from = to THEN HexText(g[from])
    ELSE HexText(g[from]) \o <<":">> \o SegmentsText(g, from + 1, to)

\* <Ipv6Addr as Display>::fmt: an IPv4-mapped address as ::ffff:a.b.c.d,
\* otherwise the first longest run of two or more zero segments as "::".
Ipv6Text(g) ==
    LET mapped == (\A i \in 1..5 : g[i] = 0) /\ g[6] = 65535
        best == CHOOSE i \in 1..8 :
                    /\ \A j \in 1..8 : ZeroRun(g, j) <= ZeroRun(g, i)
                    /\ \A j \in 1..(i - 1) : ZeroRun(g, j) < ZeroRun(g, i)
        run == ZeroRun(g, best)
    IN  IF mapped
        THEN <<":", ":", "f", "f", "f", "f", ":">> \o
             Ipv4Text(<<g[7] \div 256, g[7] % 256, g[8] \div 256, g[8] % 256>>)
        ELSE IF run > 1
        THEN SegmentsText(g, 1, best - 1) \o <<":", ":">> \o
             SegmentsText(g, best + run, 8)
        ELSE SegmentsText(g, 1, 8)

\* <IpAddr as Display>::fmt, used by ip.to_string()
IpText(ip) ==
    IF ip.kind = "V4" THEN Ipv4Text(ip.parts) ELSE Ipv6Text(ip.parts)

\* i64::to_string of a record id
I64Text(n) == IF n < 0 THEN <<"-">> \o DecText(0 - n) ELSE DecText(n)

(***************************************************************************)
(* The inputs of a run: the command line and the responses of the two      *)
(* remote services.                                                        *)
(***************************************************************************)
Tokens == {"secret"}

\* home.example.com is written h.e.c, Home.example.com is H.e.c
DomainArgs ==
    { <<"h", ".", "e">>,
      <<"H", ".", "e">>,
      <<"h", ".", "e", ".", "c">>,
      <<".", "e">>,
      <<"h", "e">> }

Ip_10_0_0_1 == <<"1", "0", ".", "0", ".", "0", ".", "1">>
Ip_10_0_0_2 == <<"1", "0", ".", "0", ".", "0", ".", "2">>
Ip_Loopback6 == <<":", ":", "1">>
Ip_Loopback6Long ==
    <<"0", ":", "0", ":", "0", ":", "0", ":", "0", ":", "0", ":", "0", ":", "1">>
NotAnIp == <<"c", "n", "a", "m", "e">>

\* The <value> argument of `set`
ValueArgs == {Ip_10_0_0_2, Ip_Loopback6Long, NotAnIp}

\* What api.ipify.org may put in "ip"
IpifyTexts == {Ip_10_0_0_1, Ip_10_0_0_2, Ip_Loopback6Long, NotAnIp}

RecordIds == {7, 8}

RecordContents == {Ip_10_0_0_1, Ip_Loopback6, NotAnIp}

RecordSubdomains == { <<"h">>, <<"H">> }

Messages == { <<"n", "o", "_", "a", "u", "t", "h">>, <<"b", "a", "d">> }

\* HTTP status codes of a response: a success and a failure
Statuses == {200, 500}

\* struct Record
Records == [id : RecordIds, content : RecordContents, subdomain : RecordSubdomains]

RecordListsUpTo(n) == UNION { [1..k -> Records] : k \in 0..n }

\* The JSON body of a dns/list response.  success is the tag ("none": no
\* usable tag, or not JSON at all); a field may be present or absent.
ListBody(success, hasRecords, records, hasError, error) ==
    [success |-> success, hasRecords |-> hasRecords, records |-> records,
     hasError |-> hasError, error |-> error]

ListBodies ==
    { ListBody("none", FALSE, <<>>, FALSE, <<>>),
      ListBody("ok", FALSE, <<>>, FALSE, <<>>),
      ListBody("error", FALSE, <<>>, FALSE, <<>>) }
    \cup { ListBody("ok", TRUE, l, FALSE, <<>>) : l \in RecordListsUpTo(MaxRecords) }
    \cup { ListBody("error", FALSE, <<>>, TRUE, m) : m \in Messages }
    \cup { ListBody("error", TRUE, l, TRUE, m) :
             l \in RecordListsUpTo(MaxRecords - 1), m \in Messages }

\* A response: delivered is FALSE when the transport failed (no response).
ListResponses ==
    { [delivered |-> FALSE, status |-> 0, body |-> ListBody("none", FALSE, <<>>, FALSE, <<>>)] }
    \cup [delivered : {TRUE}, status : Statuses, body : ListBodies]

\* The JSON body of an ipify response: {"ip": <text>} or something else.
IpifyBodies ==
    { [hasIp |-> FALSE, ip |-> <<>>] } \cup [hasIp : {TRUE}, ip : IpifyTexts]

IpifyResponses ==
    { [delivered |-> FALSE, status |-> 0, body |-> [hasIp |-> FALSE, ip |-> <<>>]] }
    \cup [delivered : {TRUE}, status : Statuses, body : IpifyBodies]

\* The JSON body of a dns/edit response.
EditBody(success, hasRecord, hasError, error) ==
    [success |-> success, hasRecord |-> hasRecord, hasError |-> hasError,
     error |-> error]

EditBodies ==
    { EditBody("none", FALSE, FALSE, <<>>),
      EditBody("ok", TRUE, FALSE, <<>>),
      EditBody("ok", FALSE, FALSE, <<>>),
      EditBody("error", FALSE, FALSE, <<>>) }
    \cup { EditBody("error", FALSE, TRUE, m) : m \in Messages }

EditResponses ==
    { [delivered |-> FALSE, status |-> 0, body |-> EditBody("none", FALSE, FALSE, <<>>)] }
    \cup [delivered : {TRUE}, status : Statuses, body : EditBodies]

(***************************************************************************)
(* Errors (failure::Error): what failed, and the text the message carries. *)
(***************************************************************************)
Err(kind, detail) == [ok |-> FALSE, kind |-> kind, detail |-> detail]

Success == [ok |-> TRUE, kind |-> "", detail |-> <<>>]

(***************************************************************************)
(* The requests                                                            *)
(***************************************************************************)
IpifyRequest ==
    [method |-> "GET", url |-> "https://api.ipify.org?format=json",
     token |-> "", query |-> <<>>]

ListRequest(token, domain) ==
    [method |-> "GET", url |-> "https://pddimp.yandex.ru/api2/admin/dns/list",
     token |-> token, query |-> << <<"domain", domain>> >>]

\* A slip in the query: the values of record_id and content are swapped.
EditRequest_SwapsValues(token, domain, record_id, ip) ==
    [method |-> "POST", url |-> "https://pddimp.yandex.ru/api2/admin/dns/edit",
     token |-> token,
     query |-> << <<"domain", domain>>,
                  <<"record_id", IpText(ip)>>,
                  <<"content", I64Text(record_id)>> >>]

EditRequest(token, domain, record_id, ip) ==
    [method |-> "POST", url |-> "https://pddimp.yandex.ru/api2/admin/dns/edit",
     token |-> token,
     query |-> << <<"domain", domain>>,
                  <<"record_id", I64Text(record_id)>>,
                  <<"content", IpText(ip)>> >>]

(***************************************************************************)
(* The functions of main.rs, as functions of the response they receive.    *)
(***************************************************************************)

\* real_ip: `reqwest::get(..)?.json()?` and response.ip.  The status code of
\* a delivered response is not looked at.
IpifyField(parsed) ==
    IF parsed = NoIp THEN [res |-> Err("json", <<>>), ip |-> NoIp]
    ELSE [res |-> Success, ip |-> parsed]

RealIpOf(resp) ==
    IF ~resp.delivered THEN [res |-> Err("transport", <<>>), ip |-> NoIp]
    ELSE IF ~resp.body.hasIp THEN [res |-> Err("json", <<>>), ip |-> NoIp]
    ELSE IpifyField(ParseIp(resp.body.ip))

\* A slip in the decoding: the records are read whatever the tag says.
FindAllRecords_IgnoresTag(resp) ==
    IF ~resp.delivered THEN [res |-> Err("transport", <<>>), records |-> <<>>]
    ELSE IF resp.body.hasRecords
    THEN [res |-> Success, records |-> resp.body.records]
    ELSE IF resp.body.success = "error" /\ resp.body.hasError
    THEN [res |-> Err("Query failed", resp.body.error), records |-> <<>>]
    ELSE [res |-> Err("json", <<>>), records |-> <<>>]

\* find_all_records: `.send()?.json()?` into YandexListResponse, then the
\* match on the variant.
FindAllRecords(resp) ==
    IF ~resp.delivered THEN [res |-> Err("transport", <<>>), records |-> <<>>]
    ELSE IF resp.body.success = "ok" /\ resp.body.hasRecords
    THEN [res |-> Success, records |-> resp.body.records]
    ELSE IF resp.body.success = "error" /\ resp.body.hasError
    THEN [res |-> Err("Query failed", resp.body.error), records |-> <<>>]
    ELSE [res |-> Err("json", <<>>), records |-> <<>>]

\* A slip in the search: the last match instead of the first.
RECURSIVE Find_LastMatch(_, _)
Find_LastMatch(records, subdomain) ==
    IF records = <<>> THEN <<>>
    ELSE IF records[Len(records)].subdomain = subdomain
    THEN <<records[Len(records)]>>
    ELSE Find_LastMatch(SubSeq(records, 1, Len(records) - 1), subdomain)

\* Iterator::find(|record| record.subdomain == subdomain): the records that
\* match, at most one, scanning from the front.
RECURSIVE Find(_, _)
Find(records, subdomain) ==
    IF records = <<>> THEN <<>>
    ELSE IF Head(records).subdomain = subdomain THEN <<Head(records)>>
    ELSE Find(Tail(records), subdomain)

\* find_record
\* find_record: the match on what find returned
FoundRecord(hit, subdomain) ==
    IF hit = <<>>
    THEN [res |-> Err("No record for subdomain", subdomain), record |-> <<>>]
    ELSE [res |-> Success, record |-> hit]

\* find_record: find_all_records(token, domain)? and the search
FindRecordIn(all, subdomain) ==
    IF ~all.res.ok THEN [res |-> all.res, record |-> <<>>]
    ELSE FoundRecord(Find(all.records, subdomain), subdomain)

\* find_record
FindRecord(resp, subdomain) == FindRecordIn(FindAllRecords(resp), subdomain)

\* current_ip: .content.parse()?
ParsedContent(record, parsed) ==
    IF parsed = NoIp
    THEN [res |-> Err("addr parse", <<>>), record |-> record, ip |-> NoIp]
    ELSE [res |-> Success, record |-> record, ip |-> parsed]

\* current_ip: find_record(token, domain, subdomain)?
CurrentIpFrom(found) ==
    IF ~found.res.ok THEN [res |-> found.res, record |-> <<>>, ip |-> NoIp]
    ELSE ParsedContent(found.record, ParseIp(found.record[1].content))

\* current_ip
CurrentIpOf(resp, subdomain) == CurrentIpFrom(FindRecord(resp, subdomain))

\* A slip in the match: the error variant also returns Ok(()).
SetIpResult_OkOnError(resp) ==
    IF ~resp.delivered THEN Err("transport", <<>>)
    ELSE IF resp.body.success = "ok" /\ resp.body.hasRecord THEN Success
    ELSE IF resp.body.success = "error" /\ resp.body.hasError THEN Success
    ELSE Err("json", <<>>)

\* set_ip after its request: `.send()?.json()?` into YandexUpdateResponse,
\* then the match on the variant.
SetIpResult(resp) ==
    IF ~resp.delivered THEN Err("transport", <<>>)
    ELSE IF resp.body.success = "ok" /\ resp.body.hasRecord THEN Success
    ELSE IF resp.body.success = "error" /\ resp.body.hasError
    THEN Err("Update failed", resp.body.error)
    ELSE Err("json", <<>>)

\* str::find('.'): the index of the first '.', 0 when there is none.
RECURSIVE FirstPoint(_, _)
FirstPoint(s, i) ==
    IF i > Len(s) THEN 0
    ELSE IF s[i] = "." THEN i
    ELSE FirstPoint(s, i + 1)

\* main: (&domain[..first_point], &domain[first_point + 1..])
\* A slip in the second slice: &domain[first_point..] keeps the '.'.
SplitAt_KeepsPoint(arg, first_point) ==
    [subdomain |-> SubSeq(arg, 1, first_point - 1),
     domain |-> SubSeq(arg, first_point, Len(arg))]

SplitAt(arg, first_point) ==
    [subdomain |-> SubSeq(arg, 1, first_point - 1),
     domain |-> SubSeq(arg, first_point + 1, Len(arg))]

SplitDomain(arg) == SplitAt(arg, FirstPoint(arg, 1))

(***************************************************************************)
(* The state of one run                                                    *)
(***************************************************************************)
VARIABLES
    options,     \* enum Options: the parsed command line (value as given)
    pc,          \* where the run is: "main", "current_ip", "real_ip",
                 \* "set_ip" (before find_record), "edit" (before the POST), "exit"
    subdomain,   \* main: the text before the first '.'
    domain,      \* main: the text after the first '.'
    current,     \* update: the record current_ip found (none or one)
    current_ip,  \* update: let current_ip
    real_ip,     \* update: let real_ip
    ip,          \* set_ip: the ip parameter
    record,      \* set_ip: the record find_record returned (none or one)
    calls,       \* the requests sent so far, in order
    response,    \* the response to the latest request (none or one)
    result       \* what main returned: none while running, else one result

vars == <<options, pc, subdomain, domain, current, current_ip, real_ip, ip,
          record, calls, response, result>>

OptionsSet ==
    [command : {"set"}, token : Tokens, domain : DomainArgs, value : ValueArgs]
    \cup [command : {"update"}, token : Tokens, domain : DomainArgs, value : {<<>>}]

Init ==
    /\ options \in OptionsSet
    /\ pc = "main"
    /\ subdomain = <<>>
    /\ domain = <<>>
    /\ current = <<>>
    /\ current_ip = NoIp
    /\ real_ip = NoIp
    /\ ip = NoIp
    /\ record = <<>>
    /\ calls = <<>>
    /\ response = <<>>
    /\ result = <<>>

\* The run ends: main returns r (an Err makes the process exit non-zero).
Exit(r) ==
    /\ pc' = "exit"
    /\ result' = <<r>>

\* main, lines 142-160 up to the call of set_ip or update.  from_args parses
\* <value> as an IpAddr and ends the process on a bad one; then the domain
\* argument is split at its first '.'.
Main ==
    /\ pc = "main"
    /\ \E value \in {ParseIp(options.value)}, split \in {SplitDomain(options.domain)} :
         IF options.command = "set" /\ value = NoIp
         THEN /\ Exit(Err("usage", <<>>))
              /\ UNCHANGED <<subdomain, domain, ip>>
         ELSE IF FirstPoint(options.domain, 1) = 0
         THEN /\ Exit(Err("domain doesn't contain '.'", <<>>))
              /\ UNCHANGED <<subdomain, domain, ip>>
         ELSE /\ subdomain' = split.subdomain
              /\ domain' = split.domain
              /\ IF options.command = "set"
                 THEN pc' = "set_ip" /\ ip' = value
                 ELSE pc' = "current_ip" /\ ip' = ip
              /\ result' = result
    /\ UNCHANGED <<options, current, current_ip, real_ip, record, calls,
                   response>>

\* update, line 113: current_ip(token, domain, subdomain)?
CurrentIp ==
    /\ pc = "current_ip"
    /\ \E resp \in ListResponses :
         \E got \in {CurrentIpOf(resp, subdomain)} :
             /\ calls' = Append(calls, ListRequest(options.token, domain))
             /\ response' = <<resp>>
             /\ current' = got.record
             /\ current_ip' = got.ip
             /\ IF got.res.ok
                THEN pc' = "real_ip" /\ result' = result
                ELSE Exit(got.res)
    /\ UNCHANGED <<options, subdomain, domain, real_ip, ip, record>>

\* A slip in update: the texts are compared instead of the parsed addresses.
RealIp_ComparesText ==
    /\ pc = "real_ip"
    /\ \E resp \in IpifyResponses :
         \E got \in {RealIpOf(resp)} :
             /\ calls' = Append(calls, IpifyRequest)
             /\ response' = <<resp>>
             /\ real_ip' = got.ip
             /\ IF ~got.res.ok
                THEN Exit(got.res) /\ ip' = ip
                ELSE IF current[1].content # resp.body.ip
                THEN pc' = "set_ip" /\ ip' = got.ip /\ result' = result
                ELSE Exit(Success) /\ ip' = ip
    /\ UNCHANGED <<options, subdomain, domain, current, current_ip, record>>

\* update, lines 114-124: real_ip()?, the comparison, and either the call of
\* set_ip or Ok(()).
RealIp ==
    /\ pc = "real_ip"
    /\ \E resp \in IpifyResponses :
         \E got \in {RealIpOf(resp)} :
             /\ calls' = Append(calls, IpifyRequest)
             /\ response' = <<resp>>
             /\ real_ip' = got.ip
             /\ IF ~got.res.ok
                THEN Exit(got.res) /\ ip' = ip
                ELSE IF current_ip # got.ip
                THEN pc' = "set_ip" /\ ip' = got.ip /\ result' = result
                ELSE Exit(Success) /\ ip' = ip
    /\ UNCHANGED <<options, subdomain, domain, current, current_ip, record>>

\* A slip in set_ip: a record that already holds ip is left alone.
SetIpFind_SkipsEqual ==
    /\ pc = "set_ip"
    /\ \E resp \in ListResponses :
         \E got \in {CurrentIpOf(resp, subdomain)} :
             /\ calls' = Append(calls, ListRequest(options.token, domain))
             /\ response' = <<resp>>
             /\ record' = got.record
             /\ IF got.record = <<>>
                THEN Exit(got.res)
                ELSE IF got.ip = ip
                THEN Exit(Success)
                ELSE pc' = "edit" /\ result' = result
    /\ UNCHANGED <<options, subdomain, domain, current, current_ip, real_ip, ip>>

\* set_ip, line 90: let record_id = find_record(token, domain, subdomain)?.id
SetIpFind ==
    /\ pc = "set_ip"
    /\ \E resp \in ListResponses :
         \E got \in {FindRecord(resp, subdomain)} :
             /\ calls' = Append(calls, ListRequest(options.token, domain))
             /\ response' = <<resp>>
             /\ record' = got.record
             /\ IF got.res.ok
                THEN pc' = "edit" /\ result' = result
                ELSE Exit(got.res)
    /\ UNCHANGED <<options, subdomain, domain, current, current_ip, real_ip, ip>>

\* A slip in set_ip: a failed edit is tried again from the lookup.
SetIpEdit_Retries ==
    /\ pc = "edit"
    /\ \E resp \in EditResponses :
         /\ calls' = Append(calls,
                EditRequest(options.token, domain, record[1].id, ip))
         /\ response' = <<resp>>
         /\ IF SetIpResult(resp).ok
            THEN Exit(Success)
            ELSE pc' = "set_ip" /\ result' = result
    /\ UNCHANGED <<options, subdomain, domain, current, current_ip, real_ip,
                   ip, record>>

\* A slip in set_ip: the id of the record update compared is used again.
SetIpEdit_ReusesCurrent ==
    /\ pc = "edit"
    /\ \E resp \in EditResponses :
         /\ calls' = Append(calls,
                EditRequest(options.token, domain,
                    IF current # <<>> THEN current[1].id ELSE record[1].id, ip))
         /\ response' = <<resp>>
         /\ Exit(SetIpResult(resp))
    /\ UNCHANGED <<options, subdomain, domain, current, current_ip, real_ip,
                   ip, record>>

\* set_ip, lines 91-109: the POST to dns/edit and the match on its response;
\* its Ok(()) is also the Ok(()) of update and of main.
SetIpEdit ==
    /\ pc = "edit"
    /\ \E resp \in EditResponses :
         /\ calls' = Append(calls,
                EditRequest(options.token, domain, record[1].id, ip))
         /\ response' = <<resp>>
         /\ Exit(SetIpResult(resp))
    /\ UNCHANGED <<options, subdomain, domain, current, current_ip, real_ip,
                   ip, record>>

Next == Main \/ CurrentIp \/ RealIp \/ SetIpFind \/ SetIpEdit

Spec == Init /\ [][Next]_vars

(***************************************************************************)
(* Vocabulary of the properties                                            *)
(***************************************************************************)
ListUrl == "https://pddimp.yandex.ru/api2/admin/dns/list"
EditUrl == "https://pddimp.yandex.ru/api2/admin/dns/edit"
IpifyUrl == "https://api.ipify.org?format=json"

IsList(c) == c.url = ListUrl
IsEdit(c) == c.url = EditUrl
IsIpify(c) == c.url = IpifyUrl

ListCalls == SelectSeq(calls, IsList)
EditCalls == SelectSeq(calls, IsEdit)

Exited == pc = "exit"
Succeeded == Exited /\ result[1].ok
Failed == Exited /\ ~result[1].ok

LatestCall == calls[Len(calls)]
LatestResponse == response[1]
AfterList == calls # <<>> /\ IsList(LatestCall)
AfterIpify == calls # <<>> /\ IsIpify(LatestCall)
AfterEdit == calls # <<>> /\ IsEdit(LatestCall)

\* The latest listing was the one of current_ip (update's first lookup).
AfterCurrentIpList == AfterList /\ options.command = "update" /\ Len(calls) = 1

\* The record the latest lookup returned (none or one).
LatestFound == IF AfterCurrentIpList THEN current ELSE record

HasPoint(arg) == \E i \in 1..Len(arg) : arg[i] = "."

\* update has obtained both addresses and compared them.
Compared == options.command = "update" /\ Len(calls) >= 2

\* The query parameter name of request c, <<>> when it has none.
Param(c, name) ==
    IF \E i \in 1..Len(c.query) : c.query[i][1] = name
    THEN (CHOOSE p \in {c.query[i] : i \in 1..Len(c.query)} : p[1] = name)[2]
    ELSE <<>>

\* The positions of records whose subdomain is exactly q.
Matches(records, q) == {i \in 1..Len(records) : records[i].subdomain = q}

Lowest(S) == CHOOSE i \in S : \A j \in S : i <= j

\* The latest response is a decodable dns/list success variant.
ListedOk ==
    /\ AfterList
    /\ LatestResponse.delivered
    /\ LatestResponse.body.success = "ok"
    /\ LatestResponse.body.hasRecords

\* The latest response is a decodable dns/list error variant.
ListedError ==
    /\ AfterList
    /\ LatestResponse.delivered
    /\ LatestResponse.body.success = "error"
    /\ LatestResponse.body.hasError

\* from_args succeeded and the domain argument has been split.
SplitDone ==
    /\ pc # "main"
    /\ HasPoint(options.domain)
    /\ ~(options.command = "set" /\ ParseIp(options.value) = NoIp)

(***************************************************************************)
(* C3: a domain argument with a '.' is split into the text before its      *)
(* first '.' and the text after it, and every later call uses those two:   *)
(* each registrar request carries the second as its domain parameter and   *)
(* each lookup returns a record whose subdomain is the first.  A domain    *)
(* argument without a '.' makes the run fail with no request sent at all.  *)
(***************************************************************************)
C3_DomainSplit ==
    /\ ~HasPoint(options.domain) =>
          /\ calls = <<>>
          /\ pc \in {"main", "exit"}
          /\ Exited => Failed
    /\ SplitDone =>
          /\ options.domain = subdomain \o <<".">> \o domain
          /\ ~HasPoint(subdomain)
    /\ \A i \in 1..Len(calls) :
          IsList(calls[i]) \/ IsEdit(calls[i]) =>
             /\ SplitDone
             /\ Param(calls[i], "domain") = domain
    /\ current # <<>> => SplitDone /\ current[1].subdomain = subdomain
    /\ record # <<>> => SplitDone /\ record[1].subdomain = subdomain

\* An edit request has been sent for h.e.c, whose registered domain is e.c
C3_Witness ==
    /\ AfterEdit
    /\ options.domain = <<"h", ".", "e", ".", "c">>
    /\ Param(LatestCall, "domain") = <<"e", ".", "c">>
    /\ record[1].subdomain = <<"h">>

(***************************************************************************)
(* C4: when a dns/list response is the error variant, the run fails with   *)
(* an error that carries the registrar's message, no record is taken from  *)
(* that response, no edit request has been or will be sent (the run has    *)
(* ended).                                                                 *)
(***************************************************************************)
C4_ListErrorSurfaces ==
    ListedError =>
       /\ Failed
       /\ result[1].kind = "Query failed"
       /\ result[1].detail = LatestResponse.body.error
       /\ LatestFound = <<>>
       /\ EditCalls = <<>>
       /\ ~ENABLED Next

\* set_ip's lookup inside update received an error variant that also holds
\* a record of the requested subdomain.
C4_Witness ==
    /\ ListedError
    /\ Len(calls) = 3
    /\ LatestResponse.body.hasRecords
    /\ Matches(LatestResponse.body.records, subdomain) # {}

(***************************************************************************)
(* C5: find_record returns the record at the lowest position of the        *)
(* listing whose subdomain equals the requested one exactly, and fails     *)
(* with "No record for subdomain" exactly when the listing holds no such   *)
(* record (an empty listing included).                                     *)
(***************************************************************************)
C5_FindRecordFirstMatch ==
    /\ ListedOk /\ Matches(LatestResponse.body.records, subdomain) = {} =>
          /\ Failed
          /\ result[1].kind = "No record for subdomain"
          /\ result[1].detail = subdomain
          /\ LatestFound = <<>>
    /\ ListedOk /\ Matches(LatestResponse.body.records, subdomain) # {} =>
          LatestFound =
             << LatestResponse.body.records[
                   Lowest(Matches(LatestResponse.body.records, subdomain))] >>
    /\ Failed /\ result[1].kind = "No record for subdomain" =>
          /\ ListedOk
          /\ Matches(LatestResponse.body.records, subdomain) = {}

\* A listing of two different records, both of the requested subdomain: the
\* first was taken.
C5_Witness ==
    /\ ListedOk
    /\ Len(LatestResponse.body.records) = 2
    /\ Matches(LatestResponse.body.records, subdomain) = {1, 2}
    /\ LatestResponse.body.records[1] # LatestResponse.body.records[2]
    /\ LatestFound = <<LatestResponse.body.records[1]>>

\* update has obtained both addresses (the comparison has been made).
BothKnown == Compared /\ real_ip # NoIp

\* The latest response is a decodable dns/edit success variant.
EditedOk ==
    /\ AfterEdit
    /\ LatestResponse.delivered
    /\ LatestResponse.body.success = "ok"
    /\ LatestResponse.body.hasRecord

(***************************************************************************)
(* C1 as stated: in a finished update run that compared the two addresses, *)
(* no edit request was sent if and only if the addresses are equal.        *)
(***************************************************************************)
C1_Original ==
    BothKnown /\ Exited => (EditCalls = <<>> <=> current_ip = real_ip)

(***************************************************************************)
(* C1 as amended: in an update run, equal addresses never lead to an edit  *)
(* request (the run ends in success after two requests), an edit request   *)
(* is sent only for unequal addresses, and unequal addresses always lead   *)
(* to set_ip's own lookup and to an edit request unless that lookup fails. *)
(***************************************************************************)
C1_NoOpIffEqual ==
    /\ options.command = "update" /\ EditCalls # <<>> =>
          BothKnown /\ current_ip # real_ip
    /\ BothKnown /\ current_ip = real_ip =>
          Succeeded /\ EditCalls = <<>> /\ Len(calls) = 2
    /\ BothKnown /\ current_ip # real_ip =>
          /\ pc \in {"set_ip", "edit", "exit"}
          /\ ip = real_ip
          /\ Exited => /\ Len(ListCalls) = 2
                       /\ EditCalls = <<>> <=> record = <<>>

\* Unequal addresses, and the edit request has been sent.
C1_Witness ==
    /\ BothKnown
    /\ current_ip # real_ip
    /\ Len(EditCalls) = 1
    /\ Exited

(***************************************************************************)
(* C2 as stated: every finished `set` run with a well-formed domain and    *)
(* value sent a dns/list request followed by exactly one dns/edit request  *)
(* whose content is the value.                                             *)
(***************************************************************************)
C2_Original ==
    options.command = "set" /\ SplitDone /\ Exited =>
       /\ Len(calls) = 2
       /\ IsList(calls[1])
       /\ IsEdit(calls[2])
       /\ ParseIp(Param(calls[2], "content")) = ParseIp(options.value)

(***************************************************************************)
(* C2 as amended: every `set` run with a well-formed domain and value      *)
(* sends a dns/list request first and then, unless that lookup fails,      *)
(* exactly one dns/edit request whose content is the value in canonical    *)
(* text, whatever content the record found holds.                          *)
(***************************************************************************)
C2_SetAlwaysEdits ==
    options.command = "set" /\ SplitDone =>
       /\ ip = ParseIp(options.value)
       /\ pc = "set_ip" <=> calls = <<>>
       /\ calls # <<>> => IsList(calls[1])
       /\ Len(calls) <= 2
       /\ pc = "edit" => Len(calls) = 1 /\ record # <<>>
       /\ Exited => (EditCalls = <<>> <=> record = <<>>)
       /\ \A i \in 1..Len(calls) :
             IsEdit(calls[i]) =>
                /\ i = 2
                /\ ParseIp(Param(calls[i], "content")) = ParseIp(options.value)
                /\ options.value = Ip_Loopback6Long =>
                      Param(calls[i], "content") = Ip_Loopback6
                /\ options.value = Ip_10_0_0_2 =>
                      Param(calls[i], "content") = Ip_10_0_0_2

\* The record already held the value (::1), and the edit request was sent.
C2_Witness ==
    /\ options.command = "set"
    /\ AfterEdit
    /\ options.value = Ip_Loopback6Long
    /\ record[1].content = Ip_Loopback6
    /\ Param(LatestCall, "content") = Ip_Loopback6

(***************************************************************************)
(* C6 as stated: a finished update run that found the addresses different  *)
(* sent exactly one edit request, with the id of the record found and the  *)
(* real IP as content, and ended in success.                               *)
(***************************************************************************)
C6_Original ==
    BothKnown /\ current_ip # real_ip /\ Exited =>
       /\ Len(EditCalls) = 1
       /\ Param(EditCalls[1], "record_id") = I64Text(record[1].id)
       /\ Param(EditCalls[1], "content") = IpText(real_ip)
       /\ Succeeded

(***************************************************************************)
(* C6 as amended: a finished update run that found the addresses different *)
(* made set_ip's lookup; if it failed, no edit request was sent and the    *)
(* run failed; otherwise exactly one edit request was sent, with the id of *)
(* the record that lookup found for the requested subdomain and the real   *)
(* IP as content, and the run ended in success exactly when the edit       *)
(* response was the success variant.                                       *)
(***************************************************************************)
C6_UpdateEditsOnce ==
    BothKnown /\ current_ip # real_ip /\ Exited =>
       /\ Len(ListCalls) = 2
       /\ record = <<>> => EditCalls = <<>> /\ Failed
       /\ record # <<>> =>
             /\ Len(EditCalls) = 1
             /\ record[1].subdomain = subdomain
             /\ Param(EditCalls[1], "record_id") = I64Text(record[1].id)
             /\ ParseIp(Param(EditCalls[1], "content")) = real_ip
             /\ real_ip = ParseIp(Ip_Loopback6Long) =>
                   Param(EditCalls[1], "content") = Ip_Loopback6
             /\ real_ip = ParseIp(Ip_10_0_0_2) =>
                   Param(EditCalls[1], "content") = Ip_10_0_0_2
             /\ Succeeded <=> EditedOk

\* Record 7 of h held 10.0.0.1, the real IP is 10.0.0.2: one edit request
\* with record_id=7 and content=10.0.0.2, and success.
C6_Witness ==
    /\ Succeeded
    /\ BothKnown
    /\ current = <<[id |-> 7, content |-> Ip_10_0_0_1, subdomain |-> <<"h">>]>>
    /\ Len(EditCalls) = 1
    /\ Param(EditCalls[1], "record_id") = <<"7">>
    /\ Param(EditCalls[1], "content") = Ip_10_0_0_2

\* The step taken last failed: the command line was rejected, or the latest
\* response did not let the function that asked for it return Ok.
LatestStepFailed ==
    \/ /\ calls = <<>>
       /\ pc # "main"
       /\ \/ options.command = "set" /\ ParseIp(options.value) = NoIp
          \/ ~HasPoint(options.domain)
    \/ /\ AfterList
       /\ \/ ~ListedOk
          \/ Matches(LatestResponse.body.records, subdomain) = {}
    \/ /\ AfterCurrentIpList
       /\ ListedOk
       /\ Matches(LatestResponse.body.records, subdomain) # {}
       /\ ParseIp(LatestResponse.body.records[
              Lowest(Matches(LatestResponse.body.records, subdomain))].content)
             = NoIp
    \/ /\ AfterIpify
       /\ \/ ~LatestResponse.delivered
          \/ ~LatestResponse.body.hasIp
          \/ ParseIp(LatestResponse.body.ip) = NoIp
    \/ AfterEdit /\ ~EditedOk

(***************************************************************************)
(* C7: every error aborts the run at once.  A step that fails ends the run *)
(* with an error result, a run that has ended takes no further step (no    *)
(* further request, no retry), and a run ends in success only if its last  *)
(* step, hence every step, succeeded; an error result comes from a failed  *)
(* step only.                                                              *)
(***************************************************************************)
C7_ErrorsAbort ==
    /\ LatestStepFailed => Failed
    /\ Failed => LatestStepFailed
    /\ Exited => ~ENABLED Next
    /\ Exited <=> result # <<>>
    /\ Succeeded => ~LatestStepFailed

\* The IP resolver failed after a good lookup: two requests, an error, the end.
C7_Witness ==
    /\ AfterIpify
    /\ Len(calls) = 2
    /\ LatestStepFailed
    /\ Failed
    /\ ~ENABLED Next

(***************************************************************************)
(* C8 as stated: a delivered response with a non-success HTTP status makes *)
(* the call that received it fail, whatever its body is.                   *)
(***************************************************************************)
C8_Original ==
    /\ calls # <<>>
    /\ LatestResponse.delivered
    /\ LatestResponse.status \notin 200..299
    => Failed

(***************************************************************************)
(* C9: in every run the dns/list endpoint is called at most twice, the     *)
(* dns/edit endpoint at most twice, and at most one record is the target   *)
(* of an edit.                                                             *)
(***************************************************************************)
C9_CallBounds ==
    /\ Len(ListCalls) <= 2
    /\ Len(EditCalls) <= 2
    /\ Cardinality({Param(EditCalls[i], "record_id") : i \in 1..Len(EditCalls)}) <= 1

\* An update run that listed twice and edited.
C9_Witness ==
    /\ Len(ListCalls) = 2
    /\ Len(EditCalls) = 1
    /\ Exited

(***************************************************************************)
(* C10: every dns/edit request directly follows the dns/list request of    *)
(* the same set_ip call, and its record_id is the id of the first record   *)
(* of the requested subdomain in that listing; an update run that edits    *)
(* has sent list, ipify, list, edit in this order.  (The witness shows     *)
(* that the record edited can differ, in id and in content, from the       *)
(* record whose content update compared with the real IP.)                 *)
(***************************************************************************)
C10_EditFollowsOwnListing ==
    /\ \A i \in 1..Len(calls) :
          IsEdit(calls[i]) =>
             /\ i > 1
             /\ IsList(calls[i - 1])
             /\ Param(calls[i - 1], "domain") = Param(calls[i], "domain")
             /\ record # <<>>
             /\ Param(calls[i], "record_id") = I64Text(record[1].id)
    /\ pc = "edit" =>
          /\ ListedOk
          /\ Matches(LatestResponse.body.records, subdomain) # {}
          /\ record =
                << LatestResponse.body.records[
                      Lowest(Matches(LatestResponse.body.records, subdomain))] >>
    /\ options.command = "update" /\ pc = "edit" =>
          /\ Len(calls) = 3
          /\ IsList(calls[1]) /\ IsIpify(calls[2]) /\ IsList(calls[3])
    /\ options.command = "update" /\ EditCalls # <<>> =>
          /\ Len(calls) = 4
          /\ IsList(calls[1]) /\ IsIpify(calls[2]) /\ IsList(calls[3])
          /\ IsEdit(calls[4])

\* update compared the content of one record and edited another one.
C10_Witness ==
    /\ options.command = "update"
    /\ AfterEdit
    /\ current # <<>> /\ record # <<>>
    /\ record[1].id # current[1].id
    /\ record[1].content # current[1].content
    /\ Param(LatestCall, "record_id") = I64Text(record[1].id)
====
